---- MODULE Spec2Model ----
(***************************************************************************)
(* Launch Navigator (src/app.py): the flow document store (load_flow,      *)
(* save_flow, normalize_flow), compute_metrics, and the page runs of       *)
(* main() that edit, reorder and save the session document.                *)
(*                                                                         *)
(* A step is a Python dict: it is modelled as a TLA+ function whose DOMAIN *)
(* is the set of keys present, so that "k in s", s.get(k, d) and           *)
(* s.setdefault(k, v) keep their meaning.  JSON scalars that may be a      *)
(* number or a string (id, success) are tagged values Num(n) / Str(x).     *)
(***************************************************************************)
EXTENDS Integers, Sequences, FiniteSets, TLC

\* ------------------------------------------------------------------ bounds
MaxSteps == 3      \* longest steps / nodes list of an input document
MaxFileSteps == 2  \* longest steps / nodes list of the session's data file
MaxEdits == 1      \* widget changes and arrow clicks made by the user in a session
MaxOps == 2        \* operations applied in a row to an input document

\* --------------------------------------------------------------- constants
PHASES == << "Pilot & Initiate", "Prepare & Startup", "Execute & Adopt", "Close & Sustain" >>

PATH_VARIANTS == << "Primary", "Data Prep", "Enhanced", "Exit" >>

STATUSES == << "Planned", "In progress", "Blocked", "Completed" >>

OrderDefault == 9999

\* ------------------------------------------------------- JSON-like values
Num(n) == [t |-> "num", n |-> n, s |-> ""]

Str(x) == [t |-> "str", n |-> 0, s |-> x]

\* dict helpers: "k in s", s.get(k, d), s[k] = v, s.setdefault(k, v)
Has(s, k) == k \in DOMAIN s

Get(s, k, d) == IF Has(s, k) THEN s[k] ELSE d

Put(s, k, v) == [x \in (DOMAIN s) \cup {k} |-> IF x = k THEN v ELSE s[x]]

SetDefault(s, k, v) == IF Has(s, k) THEN s ELSE Put(s, k, v)

Range(q) == {q[i] : i \in 1..Len(q)}

\* x in PHASES / PHASES.index(x)
InList(x, lst) == \E i \in 1..Len(lst) : lst[i] = x

IndexOf(x, lst) == CHOOSE i \in 1..Len(lst) : lst[i] = x /\ \A j \in 1..(i-1) : lst[j] # x

\* uuid.uuid4(): the n-th identifier drawn in this process, distinct from
\* every identifier a file can contain
uuid4(n) == Str("uuid-" \o ToString(n))

\* ----------------------------------------------------------- stable sort
\* Python's sorted()/list.sort() are stable.  Keys are pairs compared
\* lexicographically, as Python compares tuples.
KeyLess(a, b) == a[1] < b[1] \/ (a[1] = b[1] /\ a[2] < b[2])

\* a sort that puts an element before the equal ones already placed
RECURSIVE InsertUnstable(_, _, _)
InsertUnstable(sorted, x, K) ==
    IF sorted = << >> THEN << x >>
    ELSE IF ~KeyLess(K[Head(sorted)], K[x]) THEN << x >> \o sorted
    ELSE << Head(sorted) >> \o InsertUnstable(Tail(sorted), x, K)

RECURSIVE InsertStable(_, _, _)
InsertStable(sorted, x, K) ==
    IF sorted = << >> THEN << x >>
    ELSE IF KeyLess(K[x], K[Head(sorted)]) THEN << x >> \o sorted
    ELSE << Head(sorted) >> \o InsertStable(Tail(sorted), x, K)

RECURSIVE SortedIdx(_, _)
SortedIdx(idxs, K) ==
    IF idxs = << >> THEN << >>
    ELSE InsertStable(SortedIdx(SubSeq(idxs, 1, Len(idxs) - 1), K), idxs[Len(idxs)], K)

\* ------------------------------------------------------- normalize_flow
\* first loop with the id drawn for every step, present or not
StepDefaultsNewId(s0, newid) ==
    LET s1 == Put(s0, "id", newid)
        s2 == IF ~Has(s1, "phase") \/ ~InList(s1["phase"], PHASES)
              THEN Put(s1, "phase", PHASES[1]) ELSE s1
        s3 == IF ~Has(s2, "path") \/ ~InList(s2["path"], PATH_VARIANTS)
              THEN Put(s2, "path", "Primary") ELSE s2
        s4 == SetDefault(s3, "timeline", "")
        s5 == SetDefault(s4, "volume", 0)
        s6 == SetDefault(s5, "success", Num(0))
        s7 == SetDefault(s6, "owner", "")
    IN  SetDefault(s7, "status", "Planned")

\* first loop that fills in a missing phase or path but accepts any present one
StepDefaultsAnyValue(s0, newid) ==
    LET s1 == IF ~Has(s0, "id") THEN Put(s0, "id", newid) ELSE s0
        s2 == IF ~Has(s1, "phase") THEN Put(s1, "phase", PHASES[1]) ELSE s1
        s3 == IF ~Has(s2, "path") THEN Put(s2, "path", "Primary") ELSE s2
        s4 == SetDefault(s3, "timeline", "")
        s5 == SetDefault(s4, "volume", 0)
        s6 == SetDefault(s5, "success", Num(0))
        s7 == SetDefault(s6, "owner", "")
    IN  SetDefault(s7, "status", "Planned")

\* first loop, one step: id, phase, path and the setdefault fields
StepDefaults(s0, newid) ==
    LET s1 == IF ~Has(s0, "id") THEN Put(s0, "id", newid) ELSE s0
        s2 == IF ~Has(s1, "phase") \/ ~InList(s1["phase"], PHASES)
              THEN Put(s1, "phase", PHASES[1]) ELSE s1
        s3 == IF ~Has(s2, "path") \/ ~InList(s2["path"], PATH_VARIANTS)
              THEN Put(s2, "path", "Primary") ELSE s2
        s4 == SetDefault(s3, "timeline", "")
        s5 == SetDefault(s4, "volume", 0)
        s6 == SetDefault(s5, "success", Num(0))
        s7 == SetDefault(s6, "owner", "")
    IN  SetDefault(s7, "status", "Planned")

\* number of steps before position i that draw a fresh id
MissingBefore(steps, i) == Cardinality({j \in 1..(i-1) : ~Has(steps[j], "id")})

AssignDefaults(steps, ctr) ==
    [i \in 1..Len(steps) |-> StepDefaults(steps[i], uuid4(ctr + MissingBefore(steps, i)))]

\* second loop, one phase: order := index among the phase's steps sorted by order
PhaseIdx(steps, phase) == SelectSeq([i \in 1..Len(steps) |-> i], LAMBDA i : steps[i]["phase"] = phase)

OrderKey(steps) == [i \in 1..Len(steps) |-> << 0, Get(steps[i], "order", OrderDefault) >>]

AssignPhaseOrder(steps, phase) ==
    LET sorted == SortedIdx(PhaseIdx(steps, phase), OrderKey(steps))
    IN  [i \in 1..Len(steps) |->
            IF \E k \in 1..Len(sorted) : sorted[k] = i
            THEN Put(steps[i], "order", (CHOOSE k \in 1..Len(sorted) : sorted[k] = i) - 1)
            ELSE steps[i]]

RECURSIVE AssignOrders(_, _)
AssignOrders(steps, p) ==
    IF p > Len(PHASES) THEN steps
    ELSE AssignOrders(AssignPhaseOrder(steps, PHASES[p]), p + 1)

\* steps.sort(key=(phase index, order))
FlowKey(steps) ==
    [i \in 1..Len(steps) |->
        << IF InList(steps[i]["phase"], PHASES) THEN IndexOf(steps[i]["phase"], PHASES) - 1 ELSE 999,
           Get(steps[i], "order", 0) >>]

SortSteps(steps) ==
    LET perm == SortedIdx([i \in 1..Len(steps) |-> i], FlowKey(steps))
    IN  [i \in 1..Len(steps) |-> steps[perm[i]]]

\* data["steps"] assigned the last phase's sorted list instead of the whole list
normalize_flow_phase_list(steps, ctr) ==
    LET s1 == AssignDefaults(steps, ctr)
        s2 == AssignOrders(s1, 1)
    IN  [steps |-> SelectSeq(SortSteps(s2), LAMBDA s : s["phase"] = PHASES[Len(PHASES)]),
         ctr |-> ctr + MissingBefore(steps, Len(steps) + 1)]

normalize_flow(steps, ctr) ==
    LET s1 == AssignDefaults(steps, ctr)
        s2 == AssignOrders(s1, 1)
    IN  [steps |-> SortSteps(s2), ctr |-> ctr + MissingBefore(steps, Len(steps) + 1)]

\* --------------------------------------------------------- default_flow
DefaultStep(title, phase, description, timeline, volume, success, path) ==
    [title |-> title, phase |-> phase, description |-> description, timeline |-> timeline,
     volume |-> volume, success |-> Num(success), path |-> path]

DefaultSteps ==
    << DefaultStep("Assess launch and secure awareness", PHASES[1],
                   "Clarify objectives, scope, and high-level success metrics.", "1-2w", 5, 95, "Primary"),
       DefaultStep("Central launch preparations", PHASES[1],
                   "Align global stakeholders and prepare core materials.", "2-3w", 10, 92, "Primary"),
       DefaultStep("Pilot solution", PHASES[1],
                   "Run a limited pilot with a representative set of countries/sites.", "3-4w", 10, 90, "Enhanced"),
       DefaultStep("Prepare for global rollout", PHASES[2],
                   "Finalize business case and deployment plan based on pilot learnings.", "2-3w", 20, 93, "Primary"),
       DefaultStep("Introduce launch and prioritize", PHASES[2],
                   "Prioritize markets and define rollout waves.", "1-2w", 20, 90, "Data Prep"),
       DefaultStep("Agree on ambition & timeline", PHASES[2],
                   "Confirm ambition level and timelines with key stakeholders.", "1-2w", 20, 92, "Primary"),
       DefaultStep("Plan launch and adoption", PHASES[3],
                   "Plan communication, training, and adoption activities.", "3-6w", 80, 90, "Primary"),
       DefaultStep("Deliver and adopt solution", PHASES[3],
                   "Deploy solution to markets and monitor adoption.", "6-12w", 80, 88, "Primary"),
       DefaultStep("Handover and close country launch", PHASES[4],
                   "Transition to run-organization and confirm handover criteria.", "2-4w", 100, 95, "Primary"),
       DefaultStep("Follow up on value and adoption", PHASES[4],
                   "Validate realized value and capture lessons learned.", "4-6w", 100, 93, "Enhanced"),
       DefaultStep("Close launch initiative", PHASES[4],
                   "Formal closure, governance update, and documentation.", "1-2w", 100, 97, "Primary") >>

\* "add ids & order": a fresh id and order = list index for every step
default_flow(ctr) ==
    [raised |-> FALSE,
     steps |-> [i \in 1..Len(DefaultSteps) |->
                  LET s1 == Put(DefaultSteps[i], "id", uuid4(ctr + i - 1))
                      s2 == Put(s1, "order", i - 1)
                      s3 == SetDefault(s2, "owner", "")
                  IN  SetDefault(s3, "status", "Planned")],
     ctr |-> ctr + Len(DefaultSteps)]

\* ------------------------------------------------------ float() and str()
Ok(v) == [ok |-> TRUE, v |-> v]

ValueError == [ok |-> FALSE, v |-> 0]

\* float(x) of a string: only a numeric literal parses
StrToFloat(x) ==
    CASE x = "80" -> Ok(80)
      [] x = "90" -> Ok(90)
      [] OTHER -> ValueError

\* x.replace("%", "")
StripPercent(x) ==
    CASE x = "90%" -> "90"
      [] x = "%" -> ""
      [] OTHER -> x

\* float(v) of a JSON scalar
ToFloat(v) == IF v.t = "num" THEN Ok(v.n) ELSE StrToFloat(v.s)

\* str(v)
ToStr(v) == IF v.t = "num" THEN Str(ToString(v.n)) ELSE v

\* float(str(v).replace("%", "") or 0)
NodeSuccess(v) ==
    IF v.t = "num" THEN Ok(v.n)
    ELSE IF StripPercent(v.s) = "" THEN Ok(0) ELSE StrToFloat(StripPercent(v.s))

\* ------------------------------------------------------------- the file
\* DATA_FILE: absent, not parseable as JSON, JSON with neither key, or a
\* JSON object with a "steps" or a (legacy) "nodes" list
Absent == [kind |-> "absent", body |-> << >>]

Garbage == [kind |-> "garbage", body |-> << >>]

OtherJson == [kind |-> "other", body |-> << >>]

StepsFile(steps) == [kind |-> "steps", body |-> steps]

NodesFile(nodes) == [kind |-> "nodes", body |-> nodes]

\* ------------------------------------------------------------- load_flow
NodeToStep(n, newid) ==
    [id |-> ToStr(Get(n, "id", newid)),
     title |-> Get(n, "label", "Unnamed step"),
     phase |-> Get(n, "phase", PHASES[1]),
     description |-> Get(n, "description", ""),
     timeline |-> Get(n, "time_estimate", ""),
     volume |-> Get(n, "volume_pct", 0),
     success |-> Num(NodeSuccess(Get(n, "success_rate", Num(0))).v),
     path |-> Get(n, "path", "Primary"),
     owner |-> Get(n, "owner", ""),
     status |-> Get(n, "status", "Planned"),
     order |-> Get(n, "order", 0)]

Raised(ctr) == [raised |-> TRUE, steps |-> << >>, ctr |-> ctr]

\* load_flow without the try/except around json.load
load_flow_no_except(f, ctr) ==
    IF f.kind = "absent" THEN default_flow(ctr)
    ELSE IF f.kind = "garbage" THEN Raised(ctr)
    ELSE IF f.kind = "steps" THEN
        LET r == normalize_flow(f.body, ctr)
        IN  [raised |-> FALSE, steps |-> r.steps, ctr |-> r.ctr]
    ELSE IF f.kind = "nodes" THEN
        IF \E i \in 1..Len(f.body) : ~NodeSuccess(Get(f.body[i], "success_rate", Num(0))).ok
        THEN Raised(ctr)
        ELSE LET steps == [i \in 1..Len(f.body) |-> NodeToStep(f.body[i], uuid4(ctr + i - 1))]
                 r == normalize_flow(steps, ctr + Len(f.body))
             IN  [raised |-> FALSE, steps |-> r.steps, ctr |-> r.ctr]
    ELSE default_flow(ctr)

load_flow(f, ctr) ==
    IF f.kind = "absent" THEN default_flow(ctr)
    ELSE IF f.kind = "garbage" THEN default_flow(ctr)
    ELSE IF f.kind = "steps" THEN
        LET r == normalize_flow(f.body, ctr)
        IN  [raised |-> FALSE, steps |-> r.steps, ctr |-> r.ctr]
    ELSE IF f.kind = "nodes" THEN
        IF \E i \in 1..Len(f.body) : ~NodeSuccess(Get(f.body[i], "success_rate", Num(0))).ok
        THEN Raised(ctr)
        ELSE LET steps == [i \in 1..Len(f.body) |-> NodeToStep(f.body[i], uuid4(ctr + i - 1))]
                 r == normalize_flow(steps, ctr + Len(f.body))
             IN  [raised |-> FALSE, steps |-> r.steps, ctr |-> r.ctr]
    ELSE default_flow(ctr)

\* ------------------------------------------------------------- save_flow
\* a save under the legacy key
save_flow_legacy(steps) == NodesFile(steps)

\* json.dump of {"steps": [...]}: every key and value of every step is written
save_flow(steps) == StepsFile(steps)

\* save_flow with the faults of the file system: DATA_FILE.open("w") raises
\* and the file is as it was; or the file is opened, which truncates it, and
\* a write of json.dump raises, which leaves an empty or cut-off text that
\* json.load cannot parse; or the whole document is written
SaveFaults == {"none", "open", "write"}

save_flow_to(f, steps, fault) ==
    IF fault = "open" THEN [raised |-> TRUE, file |-> f]
    ELSE IF fault = "write" THEN [raised |-> TRUE, file |-> Garbage]
    ELSE [raised |-> FALSE, file |-> save_flow(steps)]

\* ------------------------------------------------------- compute_metrics
\* an average is kept as the exact fraction num/den; the literal 0 is 0/1
Frac(num, den) == [num |-> num, den |-> den]

RECURSIVE SumOf(_, _)
SumOf(steps, k) ==
    IF steps = << >> THEN 0
    ELSE ToFloat(Get(Head(steps), k, Num(0))).v + SumOf(Tail(steps), k)

compute_metrics(steps) ==
    LET total == Len(steps)
        vols == [i \in 1..Len(steps) |-> [v |-> Num(Get(steps[i], "volume", 0))]]
    IN  IF \E i \in 1..Len(steps) : ~ToFloat(Get(steps[i], "success", Num(0))).ok
        THEN [raised |-> TRUE, total |-> 0, avg_success |-> Frac(0, 1), avg_volume |-> Frac(0, 1)]
        ELSE [raised |-> FALSE,
              total |-> total,
              avg_success |-> IF total # 0 THEN Frac(SumOf(steps, "success"), total) ELSE Frac(0, 1),
              avg_volume |-> IF total # 0 THEN Frac(SumOf(vols, "v"), total) ELSE Frac(0, 1)]

\* ------------------------------------------------------------- edit_step
\* int(x) of a string
StrToInt(x) ==
    CASE x = "80" -> Ok(80)
      [] x = "90" -> Ok(90)
      [] OTHER -> ValueError

\* int(v) of a JSON scalar
ToInt(v) == IF v.t = "num" THEN Ok(v.n) ELSE StrToInt(v.s)

\* the one widget the user changed before this run: the widget of a field
\* of the step with this id, and its new value
NoChange == [field |-> "none", id |-> Str(""), str |-> "", num |-> 0]

StrChange(field, id, x) == [field |-> field, id |-> id, str |-> x, num |-> 0]

NumChange(field, id, n) == [field |-> field, id |-> id, str |-> "", num |-> n]

FirstWithId(steps, id) ==
    CHOOSE i \in 1..Len(steps) : steps[i]["id"] = id /\ \A j \in 1..(i-1) : steps[j]["id"] # id

\* every widget returns its changed value, or else the value it was given;
\* number_input raises on a value outside [0, 100], int() and list.index()
\* on a value they do not know; the fields assigned before stay assigned
edit_step(steps, step_id, chg) ==
    LET idx == FirstWithId(steps, step_id)
        s == steps[idx]
        WStr(field, value) == IF chg.field = field /\ chg.id = step_id THEN chg.str ELSE value
        WNum(field, value) == IF chg.field = field /\ chg.id = step_id THEN chg.num ELSE value
        t1 == Put(s, "title", WStr("title", s["title"]))
        t2 == Put(t1, "description", WStr("description", Get(t1, "description", "")))
        t3 == Put(t2, "phase",
                  WStr("phase", IF InList(t2["phase"], PHASES) THEN t2["phase"] ELSE PHASES[1]))
        t4 == Put(t3, "path",
                  WStr("path", IF InList(Get(t3, "path", "Primary"), PATH_VARIANTS)
                               THEN Get(t3, "path", "Primary") ELSE PATH_VARIANTS[1]))
        t5 == Put(t4, "timeline", WStr("timeline", Get(t4, "timeline", "")))
        vol == Get(t5, "volume", 0)
        t6 == Put(t5, "volume", WNum("volume", vol))
        suc == ToInt(Get(t6, "success", Num(0)))
        t7 == Put(t6, "success", Num(WNum("success", suc.v)))
        t8 == Put(t7, "status", WStr("status", Get(t7, "status", "Planned")))
        t9 == Put(t8, "owner", WStr("owner", Get(t8, "owner", "")))
        With(t) == [steps EXCEPT ![idx] = t]
    IN  IF vol < 0 \/ vol > 100 THEN [raised |-> TRUE, steps |-> With(t5)]
        ELSE IF ~suc.ok \/ suc.v < 0 \/ suc.v > 100 THEN [raised |-> TRUE, steps |-> With(t6)]
        ELSE IF ~InList(Get(t7, "status", "Planned"), STATUSES) THEN [raised |-> TRUE, steps |-> With(t7)]
        ELSE [raised |-> FALSE, steps |-> With(t9)]

\* phase_view: edit_step for every step of the phase, in list order; a
\* second widget with the key of an earlier one ends the run
RECURSIVE EditAll(_, _, _, _)
EditAll(steps, idxs, rendered, chg) ==
    IF idxs = << >> THEN [raised |-> FALSE, steps |-> steps]
    ELSE LET id == steps[Head(idxs)]["id"]
         IN  IF id \in rendered THEN [raised |-> TRUE, steps |-> steps]
             ELSE LET r == edit_step(steps, id, chg)
                  IN  IF r.raised THEN r
                      ELSE EditAll(r.steps, Tail(idxs), rendered \cup {id}, chg)

phase_view(steps, phase, chg) == EditAll(steps, PhaseIdx(steps, phase), {}, chg)

\* ---------------------------------------------------------- reorder_page
NoClick == [dir |-> "none", id |-> Str("")]

ReorderKey(steps) == [i \in 1..Len(steps) |-> << 0, Get(steps[i], "order", 0) >>]

\* the cards in the order they are drawn: phase by phase, by order
RECURSIVE CardOrder(_, _)
CardOrder(steps, p) ==
    IF p > Len(PHASES) THEN << >>
    ELSE SortedIdx(PhaseIdx(steps, PHASES[p]), ReorderKey(steps)) \o CardOrder(steps, p + 1)

ArrowClick(s, click) ==
    LET order == Get(s, "order", 0)
    IN  IF click.id # s["id"] THEN s
        ELSE IF click.dir = "up" THEN Put(s, "order", IF order - 1 > 0 THEN order - 1 ELSE 0)
        ELSE IF click.dir = "down" THEN Put(s, "order", order + 1)
        ELSE s

RECURSIVE ArrowAll(_, _, _, _)
ArrowAll(steps, idxs, rendered, click) ==
    IF idxs = << >> THEN [raised |-> FALSE, steps |-> steps]
    ELSE LET k == Head(idxs)
             id == steps[k]["id"]
         IN  IF id \in rendered THEN [raised |-> TRUE, steps |-> steps]
             ELSE ArrowAll([steps EXCEPT ![k] = ArrowClick(steps[k], click)],
                           Tail(idxs), rendered \cup {id}, click)

\* the arrows, then normalize_flow; the file is written by the caller when
\* "Save order to file" is clicked
reorder_page(steps, click, ctr) ==
    LET a == ArrowAll(steps, CardOrder(steps, 1), {}, click)
        r == normalize_flow(a.steps, ctr)
    IN  IF a.raised THEN [raised |-> TRUE, steps |-> a.steps, ctr |-> ctr]
        ELSE [raised |-> FALSE, steps |-> r.steps, ctr |-> r.ctr]

\* ------------------------------------------------------- input documents
\* a dict with the optional key k: absent, or present with one of the values
Opt(k, values) == {<< >>} \cup {(k :> v) : v \in values}

\* steps as they can stand in a hand-written file: without id, phase or
\* order, with an unknown phase or path, with tied orders, with the same id
\* twice, with a success that is not a number, with a volume above 100
StepSamples ==
    {<< >>}
    \cup {[phase |-> p] @@ o : p \in {PHASES[2], "Bogus"}, o \in Opt("order", {0, 1})}
    \cup {[id |-> Str("a"), phase |-> PHASES[1], order |-> 0],
          [id |-> Str("b"), phase |-> PHASES[2], order |-> 0, path |-> "Exit",
           success |-> Num(80), volume |-> 50],
          [id |-> Str("c"), phase |-> PHASES[1], order |-> 1, path |-> "Bogus",
           success |-> Str("n/a"), volume |-> 150]}

Title(i) == "T" \o ToString(i)

\* every list of at most n samples; the item at position i is titled Ti
\* under the key tkey
DocsOver(samples, n, tkey) ==
    UNION {{[i \in 1..k |-> Put(d[i], tkey, Title(i))] : d \in [1..k -> samples]} : k \in 0..n}

Docs == DocsOver(StepSamples, MaxSteps, "title")

\* the steps and the legacy nodes of the session's data file
FileStepSamples ==
    {<< >>,
     [phase |-> "Bogus", order |-> 1],
     [id |-> Str("a"), phase |-> PHASES[2], order |-> 0, path |-> "Exit",
      success |-> Num(80), volume |-> 50],
     [id |-> Str("c"), phase |-> PHASES[1], order |-> 1, path |-> "Bogus",
      success |-> Str("n/a"), volume |-> 150]}

FileNodeSamples ==
    {[id |-> Num(7), phase |-> PHASES[2], success_rate |-> Str("90%"), volume_pct |-> 40, order |-> 1],
     [phase |-> "Bogus", success_rate |-> Num(80), time_estimate |-> "2w"],
     [id |-> Str("a"), success_rate |-> Str("n/a")]}

Files ==
    {Absent, Garbage, OtherJson}
    \cup {StepsFile(d) : d \in DocsOver(FileStepSamples, MaxFileSteps, "title")}
    \cup {NodesFile(d) : d \in DocsOver(FileNodeSamples, MaxFileSteps, "label")}

VARIABLES file, hasFlow, flow, ctr, pc, raised, metrics, saveClicked, edits, arrow, prev, hist

vars == << file, hasFlow, flow, ctr, pc, raised, metrics, saveClicked, edits, arrow, prev, hist >>

NoMetrics == [raised |-> FALSE, total |-> 0, avg_success |-> Frac(0, 1), avg_volume |-> Frac(0, 1)]

\* ---------------------------------------------------------------------
\* The operations of the document store applied to an arbitrary document
\* ---------------------------------------------------------------------
OpsInit ==
    /\ flow \in Docs
    /\ file = Absent
    /\ hasFlow = TRUE
    /\ ctr = 0
    /\ pc = "ops"
    /\ raised = FALSE
    /\ metrics = NoMetrics
    /\ saveClicked = FALSE
    /\ edits = 0
    /\ arrow = NoClick
    /\ prev = << >>
    /\ hist = << >>

OpNormalize ==
    /\ pc = "ops" /\ Len(hist) < MaxOps
    /\ LET r == normalize_flow(flow, ctr)
       IN  flow' = r.steps /\ ctr' = r.ctr
    /\ prev' = flow
    /\ hist' = Append(hist, "normalize")
    /\ UNCHANGED << file, hasFlow, pc, raised, metrics, saveClicked, edits, arrow >>

\* save_flow(doc) followed by load_flow()
OpSaveLoad ==
    /\ pc = "ops" /\ Len(hist) < MaxOps
    /\ file' = save_flow(flow)
    /\ LET r == load_flow(file', ctr)
       IN  flow' = r.steps /\ ctr' = r.ctr /\ raised' = r.raised
    /\ prev' = flow
    /\ hist' = Append(hist, "saveload")
    /\ UNCHANGED << hasFlow, pc, metrics, saveClicked, edits, arrow >>

OpMetrics ==
    /\ pc = "ops" /\ Len(hist) < MaxOps
    /\ metrics' = compute_metrics(flow)
    /\ raised' = metrics'.raised
    /\ prev' = flow
    /\ hist' = Append(hist, "metrics")
    /\ UNCHANGED << file, hasFlow, flow, ctr, pc, saveClicked, edits, arrow >>

OpsNext == OpNormalize \/ OpSaveLoad \/ OpMetrics

SpecOps == OpsInit /\ [][OpsNext]_vars

LastOp == IF hist = << >> THEN "none" ELSE hist[Len(hist)]

LastTwo(a, b) == Len(hist) >= 2 /\ hist[Len(hist) - 1] = a /\ hist[Len(hist)] = b

\* ---------------------------------------------------------------------
\* Properties of normalize_flow, save_flow and load_flow as functions
\* ---------------------------------------------------------------------
Perms(n) == {p \in [1..n -> 1..n] : \A i, j \in 1..n : p[i] = p[j] => i = j}

FieldSame(a, b, k) == (Has(a, k) <=> Has(b, k)) /\ (Has(a, k) => a[k] = b[k])

\* C1: normalize_flow is idempotent: applied to its own result, it leaves
\* the document (step sequence, ids, phases, paths, orders, defaults) unchanged
C1_Idempotent == LastTwo("normalize", "normalize") => flow = prev

C1_Witness ==
    /\ LastTwo("normalize", "normalize")
    /\ Len(flow) >= 2
    /\ ctr > 0
    /\ \E i \in 1..Len(flow) : flow[i]["id"] = Str("c")

\* b is the step a, up to the fields normalize_flow may rewrite or add
SameStepNormalized(a, b) ==
    \A k \in (DOMAIN a) \ {"phase", "path", "order"} : Has(b, k) /\ b[k] = a[k]

\* C2: normalize_flow never drops or duplicates a step: its result is a
\* permutation of its input
C2_Permutation ==
    LastOp = "normalize" =>
        /\ Len(flow) = Len(prev)
        /\ \E p \in Perms(Len(prev)) : \A i \in 1..Len(prev) : SameStepNormalized(prev[p[i]], flow[i])

C2_Witness ==
    /\ hist = << "normalize" >>
    /\ Len(prev) >= 2
    /\ \E i \in 1..Len(prev) : Has(prev[i], "phase") /\ prev[i]["phase"] = "Bogus"
    /\ prev[1]["title"] # flow[1]["title"]

SamePhase(a, b) == a["phase"] = b["phase"]

PrevOrder(s) == Get(s, "order", OrderDefault)

RoundTripFields == {"id", "title", "phase", "path", "volume", "success", "order"}

RoundTripSame(a, b) ==
    /\ Len(a) = Len(b)
    /\ \A i \in 1..Len(a) : \A k \in RoundTripFields : FieldSame(a[i], b[i], k)

\* C7 as stated: for any document, save_flow then load_flow returns the same
\* steps with the same id, title, phase, path, volume, success and order
C7_RoundTripAnyDocument == LastOp = "saveload" => RoundTripSame(prev, flow)

\* C7 amended: the round trip holds for every document that normalize_flow
\* has been applied to (every document the program saves is one)
C7_RoundTripNormalized == LastTwo("normalize", "saveload") => (~raised /\ RoundTripSame(prev, flow))

C7_Witness ==
    /\ LastTwo("normalize", "saveload")
    /\ Len(flow) >= 2
    /\ file = StepsFile(prev)
    /\ \E i \in 1..Len(flow) : flow[i]["success"] = Str("n/a")

\* ---------------------------------------------------------------------
\* The session: main() is run once per user interaction
\* ---------------------------------------------------------------------
Pages == << "Overview" >> \o PHASES \o << "Reorder", "Export PDF" >>

Init ==
    /\ file \in Files
    /\ hasFlow = FALSE
    /\ flow = << >>
    /\ ctr = 0
    /\ pc = "start"
    /\ raised = FALSE
    /\ metrics = NoMetrics
    /\ saveClicked = FALSE
    /\ edits = 0
    /\ arrow = NoClick
    /\ prev = << >>
    /\ hist = << >>

\* get_flow() that writes a migrated legacy file back at once
GetFlowRewriting ==
    /\ pc = "start"
    /\ saveClicked' = FALSE
    /\ IF hasFlow
       THEN /\ pc' = "normalize"
            /\ raised' = FALSE
            /\ UNCHANGED << flow, ctr, hasFlow, file >>
       ELSE LET r == load_flow(file, ctr)
            IN  IF r.raised
                THEN /\ raised' = TRUE
                     /\ pc' = "start"
                     /\ UNCHANGED << flow, ctr, hasFlow, file >>
                ELSE /\ raised' = FALSE
                     /\ flow' = r.steps
                     /\ ctr' = r.ctr
                     /\ hasFlow' = TRUE
                     /\ pc' = "normalize"
                     /\ file' = IF file.kind = "nodes" THEN save_flow(r.steps) ELSE file
    /\ metrics' = NoMetrics
    /\ arrow' = NoClick
    /\ UNCHANGED << edits, prev, hist >>

\* a run starts with no button seen, no arrow clicked and no metrics computed;
\* flow = get_flow(): load_flow() on the first run of the session; an
\* exception ends the run and leaves the session without a document
GetFlow ==
    /\ pc = "start"
    /\ saveClicked' = FALSE
    /\ IF hasFlow
       THEN /\ pc' = "normalize"
            /\ raised' = FALSE
            /\ UNCHANGED << flow, ctr, hasFlow >>
       ELSE LET r == load_flow(file, ctr)
            IN  IF r.raised
                THEN /\ raised' = TRUE
                     /\ pc' = "start"
                     /\ UNCHANGED << flow, ctr, hasFlow >>
                ELSE /\ raised' = FALSE
                     /\ flow' = r.steps
                     /\ ctr' = r.ctr
                     /\ hasFlow' = TRUE
                     /\ pc' = "normalize"
    /\ metrics' = NoMetrics
    /\ arrow' = NoClick
    /\ UNCHANGED << file, edits, prev, hist >>

\* normalize_flow(flow) of main()
MainNormalize ==
    /\ pc = "normalize"
    /\ LET r == normalize_flow(flow, ctr)
       IN  flow' = r.steps /\ ctr' = r.ctr
    /\ pc' = "sidebar"
    /\ UNCHANGED << file, hasFlow, raised, metrics, saveClicked, edits, arrow, prev, hist >>

\* the navigation radio and the "Save to JSON" button
Sidebar ==
    /\ pc = "sidebar"
    /\ \E page \in Range(Pages), save \in BOOLEAN, fault \in SaveFaults :
          LET w == save_flow_to(file, flow, fault)
          IN  /\ ~save => fault = "none"
              /\ saveClicked' = save
              /\ file' = IF save THEN w.file ELSE file
              /\ raised' = (save /\ w.raised)
              /\ pc' = IF save /\ w.raised THEN "start" ELSE page
    /\ UNCHANGED << hasFlow, flow, ctr, metrics, edits, arrow, prev, hist >>

\* metrics_block(flow); flow_map(flow)
PageOverview ==
    /\ pc = "Overview"
    /\ metrics' = compute_metrics(flow)
    /\ raised' = metrics'.raised
    /\ pc' = "start"
    /\ UNCHANGED << file, hasFlow, flow, ctr, saveClicked, edits, arrow, prev, hist >>

\* export_pdf(flow): nothing without reportlab, else the metrics and the story
PageExport ==
    /\ pc = "Export PDF"
    /\ \E REPORTLAB_AVAILABLE \in BOOLEAN :
          IF REPORTLAB_AVAILABLE
          THEN metrics' = compute_metrics(flow) /\ raised' = metrics'.raised
          ELSE UNCHANGED << metrics, raised >>
    /\ pc' = "start"
    /\ UNCHANGED << file, hasFlow, flow, ctr, saveClicked, edits, arrow, prev, hist >>

\* what the user may have changed on a phase page
EditValues == {<< "phase", PHASES[3] >>}

Changes(steps, phase) ==
    {StrChange(e[1], steps[i]["id"], e[2]) : e \in EditValues, i \in Range(PhaseIdx(steps, phase))}
    \cup {NumChange("success", steps[i]["id"], 55) : i \in Range(PhaseIdx(steps, phase))}

\* phase_view(flow, page)
PagePhase ==
    /\ InList(pc, PHASES)
    /\ \E chg \in {NoChange} \cup (IF edits < MaxEdits /\ ~saveClicked THEN Changes(flow, pc) ELSE {}) :
          LET r == phase_view(flow, pc, chg)
          IN  /\ flow' = r.steps
              /\ raised' = r.raised
              /\ edits' = IF chg = NoChange THEN edits ELSE edits + 1
    /\ pc' = "start"
    /\ UNCHANGED << file, hasFlow, ctr, metrics, saveClicked, arrow, prev, hist >>

Clicks(steps) == {[dir |-> d, id |-> steps[i]["id"]] : d \in {"up", "down"}, i \in 1..Len(steps)}

\* reorder_page(flow) and its "Save order to file" button
PageReorder ==
    /\ pc = "Reorder"
    /\ \E click \in {NoClick} \cup (IF edits < MaxEdits /\ ~saveClicked THEN Clicks(flow) ELSE {}),
          saveOrder \in BOOLEAN :
          /\ saveOrder => (click = NoClick /\ ~saveClicked)
          /\ \E r \in {reorder_page(flow, click, ctr)} :
                \E fault \in (IF saveOrder /\ ~r.raised THEN SaveFaults ELSE {"none"}) :
                   \E w \in {save_flow_to(file, r.steps, fault)} :
                      /\ flow' = r.steps
                      /\ ctr' = r.ctr
                      /\ raised' = (r.raised \/ (saveOrder /\ w.raised))
                      /\ edits' = IF click = NoClick THEN edits ELSE edits + 1
                      /\ saveClicked' = (saveClicked \/ (saveOrder /\ ~r.raised))
                      /\ arrow' = click
                      /\ file' = IF saveOrder /\ ~r.raised THEN w.file ELSE file
    /\ pc' = "start"
    /\ UNCHANGED << hasFlow, metrics, prev, hist >>

Next == GetFlow \/ MainNormalize \/ Sidebar \/ PageOverview \/ PagePhase \/ PageReorder \/ PageExport

Spec == Init /\ [][Next]_vars

\* ---------------------------------------------------------------------
\* Properties of the session
\* ---------------------------------------------------------------------
\* C3: every step of the session document has a phase of PHASES and a path
\* of PATH_VARIANTS, after load_flow and after every edit, reorder and
\* normalize_flow since
C3_ClosedEnumerations ==
    hasFlow => \A i \in 1..Len(flow) :
        /\ Has(flow[i], "phase") /\ InList(flow[i]["phase"], PHASES)
        /\ Has(flow[i], "path") /\ InList(flow[i]["path"], PATH_VARIANTS)

\* a file with an unknown phase and an unknown path was loaded, and the
\* user has since changed a widget or clicked an arrow
C3_Witness ==
    /\ hasFlow /\ edits > 0 /\ pc = "start" /\ ~raised
    /\ file.kind = "steps"
    /\ \E i \in 1..Len(file.body) : Has(file.body[i], "phase") /\ file.body[i]["phase"] = "Bogus"
    /\ \E i \in 1..Len(file.body) : Has(file.body[i], "path") /\ file.body[i]["path"] = "Bogus"

\* C5: no two steps of the session document share an id
C5_UniqueIds ==
    hasFlow => \A i, j \in 1..Len(flow) : i # j => flow[i]["id"] # flow[j]["id"]

\* C6: the data file changes only in a run in which "Save to JSON" or
\* "Save order to file" was clicked
C6_FileChangesOnlyOnSave == [][file' # file => saveClicked']_vars

\* a legacy file was migrated in memory, the document was edited, and the
\* file still has its legacy content
C6_Witness ==
    /\ hasFlow /\ edits > 0 /\ pc = "start" /\ ~saveClicked
    /\ file.kind = "nodes" /\ Len(file.body) >= 1

IsDefaultDocument(steps) ==
    /\ Len(steps) = Len(DefaultSteps)
    /\ \A i \in 1..Len(DefaultSteps) : \A k \in DOMAIN DefaultSteps[i] :
          Has(steps[i], k) /\ steps[i][k] = DefaultSteps[i][k]

BadSource == file.kind \in {"absent", "garbage", "other"}

\* C8: with the file absent, unparseable or without "steps" and "nodes",
\* load_flow does not raise and returns the built-in default document,
\* which has at least one step
C8_BadSourceGivesDefault ==
    [][(pc = "start" /\ ~hasFlow /\ BadSource) =>
          (hasFlow' /\ ~raised' /\ Len(flow') >= 1 /\ IsDefaultDocument(flow'))]_vars

C8_Witness == hasFlow /\ file = Garbage /\ pc = "normalize" /\ ~raised /\ Len(flow) = 11

Parseable(steps) == {i \in 1..Len(steps) : ToFloat(Get(steps[i], "success", Num(0))).ok}

RECURSIVE SumOver(_, _)
SumOver(steps, I) ==
    IF I = {} THEN 0
    ELSE LET i == CHOOSE x \in I : TRUE
         IN  ToFloat(Get(steps[i], "success", Num(0))).v + SumOver(steps, I \ {i})

\* C9: compute_metrics does not raise on a success that is not a number,
\* and averages the success of the steps whose value parses
C9_UnparseableSkipped ==
    LastOp = "metrics" =>
        /\ ~metrics.raised
        /\ Parseable(flow) # {} =>
              metrics.avg_success.num * Cardinality(Parseable(flow))
                  = SumOver(flow, Parseable(flow)) * metrics.avg_success.den

\* C10: for an empty steps list compute_metrics returns a count of 0 and an
\* average success that is not the number 0
C10_EmptyHasNoValue ==
    (LastOp = "metrics" /\ flow = << >>) =>
        /\ ~metrics.raised
        /\ metrics.total = 0
        /\ metrics.avg_success # Frac(0, 1)

\* ---------------------------------------------------------------------
\* Volumes after normalize_flow
\* ---------------------------------------------------------------------
\* C11: after normalize_flow every step has a volume, and it lies in [0, 100]
C11_VolumeClamped ==
    LastOp = "normalize" =>
        \A i \in 1..Len(flow) :
            Has(flow[i], "volume") /\ flow[i]["volume"] >= 0 /\ flow[i]["volume"] <= 100

\* ---------------------------------------------------------------------
\* A save that fails
\* ---------------------------------------------------------------------
\* the step is a click on "Save to JSON" or on "Save order to file" whose
\* save_flow raised
SaveFailed ==
    /\ raised'
    /\ \/ pc = "sidebar"
       \/ (pc = "Reorder" /\ ~saveClicked /\ saveClicked')

\* C12: when save_flow raises, the data file has the content it had before
\* the call and the session document is unchanged
C12_FailedSaveLosesNothing ==
    [][SaveFailed => (file' = file /\ flow' = flow /\ hasFlow' = hasFlow)]_vars

\* ---------------------------------------------------------------------
\* The arrows of the Reorder page
\* ---------------------------------------------------------------------
\* position of the step with this id among the steps of its phase, from 0
PosInPhase(steps, id) ==
    LET i == FirstWithId(steps, id)
    IN  Cardinality({j \in 1..(i-1) : steps[j]["phase"] = steps[i]["phase"]})

LastInPhase(steps, id) ==
    LET i == FirstWithId(steps, id)
    IN  Cardinality({j \in 1..Len(steps) : steps[j]["phase"] = steps[i]["phase"]}) - 1

\* the step is a pass over the Reorder page in which an arrow was clicked
\* and nothing raised
ArrowPass == pc = "Reorder" /\ ~raised' /\ arrow'.dir # "none"

\* the steps of the other phases are where they were
OthersInPlace(id) ==
    /\ Len(flow') = Len(flow)
    /\ {flow'[i]["id"] : i \in 1..Len(flow')} = {flow[i]["id"] : i \in 1..Len(flow)}
    /\ \A i \in 1..Len(flow) :
          flow[i]["phase"] # flow[FirstWithId(flow, id)]["phase"] => flow'[i] = flow[i]

MovedUp ==
    (arrow'.dir = "up" /\ PosInPhase(flow, arrow'.id) > 0) =>
        PosInPhase(flow', arrow'.id) = PosInPhase(flow, arrow'.id) - 1

MovedDown ==
    (arrow'.dir = "down" /\ PosInPhase(flow, arrow'.id) < LastInPhase(flow, arrow'.id)) =>
        PosInPhase(flow', arrow'.id) = PosInPhase(flow, arrow'.id) + 1

\* C13: after the pass in which it was clicked, the up arrow of a step that
\* is not first in its phase has moved the step one position earlier in
\* the phase, the down arrow of a step that is not last one position later;
\* the steps are the same and those of other phases have not moved
C13_ArrowsMoveCards ==
    [][ArrowPass => (MovedUp /\ MovedDown /\ OthersInPlace(arrow'.id))]_vars

====
